---- MODULE Spec2Model ----
(***************************************************************************)
(* Model of prototype.py: an arithmetic-expression calculator made of a    *)
(* scanner (main, scan_num), a recursive-descent parser (parse_expression, *)
(* parse_term, parse_factor, consume_token) and a tree evaluator           *)
(* (Expr.evaluate).                                                        *)
(*                                                                         *)
(* A source text is a sequence of one-character strings.  Indices named    *)
(* curr, initial, end are 0-based as in the code; the TLA+ sequence that   *)
(* holds the text is 1-based, so source[curr] of the code is               *)
(* source[curr + 1] here.  Python floats are modelled as exact rationals   *)
(* [n, d] in lowest terms; a raised exception is a record naming the       *)
(* exception class and the stage that raised it.                           *)
(***************************************************************************)
EXTENDS Integers, Sequences, FiniteSets, TLC

VARIABLES source, curr, tokens, reads, ast, result, pc

vars == <<source, curr, tokens, reads, ast, result, pc>>

RECURSIVE GCD(_, _)
RECURSIVE Pow10(_)
RECURSIVE IntOf(_)
RECURSIVE scan_digits(_, _, _)
RECURSIVE scan_fraction(_, _, _)
RECURSIVE parse_expression(_, _)
RECURSIVE parse_expression_loop(_, _, _)
RECURSIVE parse_term(_, _)
RECURSIVE parse_term_loop(_, _, _)
RECURSIVE parse_factor(_, _)
RECURSIVE evaluate(_)
RECURSIVE FactorStr(_)
RECURSIVE TermStr(_)
RECURSIVE ExprStr(_)
RECURSIVE IsFactor(_)
RECURSIVE IsTerm(_)
RECURSIVE IsExpression(_)
RECURSIVE Flatten(_)
RECURSIVE DerivesFactor(_)
RECURSIVE DerivesTerm(_)
RECURSIVE DerivesExpression(_)
RECURSIVE Strings(_)
RECURSIVE TokenText(_)
RECURSIVE WellFormedTree(_)
RECURSIVE OnlyMul(_)
RECURSIVE PrecedenceOk(_)
RECURSIVE LeftNested(_)

-----------------------------------------------------------------------------
(* Bounds of the checked input space *)

MaxLen == 4

MaxTok == 7

-----------------------------------------------------------------------------
(* Characters *)

Digits == {"0", "1", "2", "3", "4", "5", "6", "7", "8", "9"}

DigitVal(c) ==
  CASE c = "0" -> 0 [] c = "1" -> 1 [] c = "2" -> 2 [] c = "3" -> 3
    [] c = "4" -> 4 [] c = "5" -> 5 [] c = "6" -> 6 [] c = "7" -> 7
    [] c = "8" -> 8 [] c = "9" -> 9

-----------------------------------------------------------------------------
(* Data types *)

TokenType == {"PLUS", "MINUS", "ASTERISK", "FSLASH", "LBRACKET", "RBRACKET", "NUM", "DOT"}

\* Python's None as the value of a token that is not a number
NoneValue == <<>>

Token(ttype, value, length) == [ttype |-> ttype, value |-> value, length |-> length]

Expr(left, op, right) == [left |-> left, op |-> op, right |-> right]

\* isinstance(x, Expr)
IsExprNode(x) == "op" \in DOMAIN x

\* an exception that left the program, with the stage of main that raised it
Raise(exc, stage, msg) == [kind |-> "error", exc |-> exc, stage |-> stage, msg |-> msg]

-----------------------------------------------------------------------------
(* Floating-point values as exact rationals *)

Abs(x) == IF x < 0 THEN -x ELSE x

GCD(a, b) == IF b = 0 THEN a ELSE GCD(b, a % b)

Rat(n, d) ==
  LET g == GCD(Abs(n), Abs(d))
      s == IF d < 0 THEN -1 ELSE 1
  IN  [n |-> (s * n) \div g, d |-> (s * d) \div g]

Pow10(k) == IF k = 0 THEN 1 ELSE 10 * Pow10(k - 1)

IntOf(s) == IF s = <<>> THEN 0 ELSE 10 * IntOf(SubSeq(s, 1, Len(s) - 1)) + DigitVal(s[Len(s)])

\* float(text) for a text of digits with at most one '.'
Float(value) ==
  LET dots == {i \in 1..Len(value) : value[i] = "."}
  IN  IF dots = {}
      THEN Rat(IntOf(value), 1)
      ELSE LET p == CHOOSE i \in dots : TRUE
               ip == SubSeq(value, 1, p - 1)
               fp == SubSeq(value, p + 1, Len(value))
           IN  Rat(IntOf(ip) * Pow10(Len(fp)) + IntOf(fp), Pow10(Len(fp)))

-----------------------------------------------------------------------------
(* Scanner *)

\* source[i] of the code: the character, or no character when i is out of range
InRange(src, i) == i >= 0 /\ i < Len(src)

\* scan_digits with the loop guard off by one: curr < len(source)
scan_digits_GuardOffByOne(src, c, rd) ==
  IF c < Len(src)
  THEN IF ~InRange(src, c + 1)
       THEN [curr |-> c, reads |-> rd \cup {c + 1}, err |-> "IndexError"]
       ELSE IF src[c + 2] \in Digits
            THEN scan_digits(src, c + 1, rd \cup {c + 1})
            ELSE [curr |-> c, reads |-> rd \cup {c + 1}, err |-> "none"]
  ELSE [curr |-> c, reads |-> rd, err |-> "none"]

\* first loop of scan_num: advance over the digits that follow curr; a read of
\* source[c + 1] outside the text raises IndexError
scan_digits(src, c, rd) ==
  IF c < Len(src) - 1
  THEN IF ~InRange(src, c + 1)
       THEN [curr |-> c, reads |-> rd \cup {c + 1}, err |-> "IndexError"]
       ELSE IF src[c + 2] \in Digits
            THEN scan_digits(src, c + 1, rd \cup {c + 1})
            ELSE [curr |-> c, reads |-> rd \cup {c + 1}, err |-> "none"]
  ELSE [curr |-> c, reads |-> rd, err |-> "none"]

\* scan_fraction without the check for a second '.'
scan_fraction_NoSecondDotCheck(src, c, rd) ==
  IF c < Len(src) - 1
  THEN IF src[c + 2] \in Digits
       THEN scan_fraction(src, c + 1, rd \cup {c + 1})
       ELSE [curr |-> c, reads |-> rd \cup {c + 1}, err |-> "none"]
  ELSE [curr |-> c, reads |-> rd, err |-> "none"]

\* second loop of scan_num: advance over the digits that follow the '.'
scan_fraction(src, c, rd) ==
  IF c < Len(src) - 1
  THEN IF ~InRange(src, c + 1)
       THEN [curr |-> c, reads |-> rd \cup {c + 1}, err |-> "IndexError"]
       ELSE IF src[c + 2] \in Digits
            THEN scan_fraction(src, c + 1, rd \cup {c + 1})
            ELSE IF src[c + 2] = "."
                 THEN [curr |-> c, reads |-> rd \cup {c + 1}, err |-> "ValueError"]
                 ELSE [curr |-> c, reads |-> rd \cup {c + 1}, err |-> "none"]
  ELSE [curr |-> c, reads |-> rd, err |-> "none"]

scan_num(src, c) ==
  LET a == scan_digits(src, c, {})
  IN  IF a.err # "none"
      THEN a
      ELSE IF a.curr < Len(src) - 1
           THEN IF src[a.curr + 2] = "."
                THEN scan_fraction(src, a.curr + 1, a.reads \cup {a.curr + 1})
                ELSE [a EXCEPT !.reads = @ \cup {a.curr + 1}]
           ELSE a

-----------------------------------------------------------------------------
(* Parser *)

Parsed(node, c) == [ok |-> TRUE, node |-> node, curr |-> c]

ParseRaise(exc, msg) == [ok |-> FALSE, exc |-> exc, msg |-> msg]

consume_token(toks, c, ttype, msg) ==
  IF c < Len(toks) /\ toks[c + 1].ttype = ttype
  THEN [ok |-> TRUE, curr |-> c + 1]
  ELSE ParseRaise("ValueError", msg)

\* parse_factor taking a DOT token for a leaf as well
parse_factor_DotLeaf(toks, c) ==
  IF c >= Len(toks)
  THEN ParseRaise("IndexError", "list index out of range")
  ELSE LET token == toks[c + 1]
       IN  IF token.ttype \in {"NUM", "DOT"}
           THEN Parsed(token, c + 1)
           ELSE IF token.ttype = "LBRACKET"
                THEN LET e == parse_expression(toks, c + 1)
                     IN  IF ~e.ok
                         THEN e
                         ELSE LET k == consume_token(toks, e.curr, "RBRACKET", "Expected closing bracket")
                              IN  IF ~k.ok THEN k ELSE Parsed(e.node, k.curr)
                ELSE ParseRaise("ValueError", "Unexpected token")

parse_factor(toks, c) ==
  IF c >= Len(toks)
  THEN ParseRaise("IndexError", "list index out of range")
  ELSE LET token == toks[c + 1]
       IN  IF token.ttype = "NUM"
           THEN Parsed(token, c + 1)
           ELSE IF token.ttype = "LBRACKET"
                THEN LET e == parse_expression(toks, c + 1)
                     IN  IF ~e.ok
                         THEN e
                         ELSE LET k == consume_token(toks, e.curr, "RBRACKET", "Expected closing bracket")
                              IN  IF ~k.ok THEN k ELSE Parsed(e.node, k.curr)
                ELSE ParseRaise("ValueError", "Unexpected token")

\* the loop of parse_term folding '+' and '-' too
parse_term_loop_AnyOperator(toks, left, c) ==
  IF c < Len(toks) /\ toks[c + 1].ttype \in {"ASTERISK", "FSLASH", "PLUS", "MINUS"}
  THEN LET op == toks[c + 1]
           r == parse_factor(toks, c + 1)
       IN  IF ~r.ok THEN r ELSE parse_term_loop(toks, Expr(left, op, r.node), r.curr)
  ELSE Parsed(left, c)

\* the while loop of parse_term
parse_term_loop(toks, left, c) ==
  IF c < Len(toks) /\ toks[c + 1].ttype \in {"ASTERISK", "FSLASH"}
  THEN LET op == toks[c + 1]
           r == parse_factor(toks, c + 1)
       IN  IF ~r.ok THEN r ELSE parse_term_loop(toks, Expr(left, op, r.node), r.curr)
  ELSE Parsed(left, c)

parse_term(toks, c) ==
  LET l == parse_factor(toks, c)
  IN  IF ~l.ok THEN l ELSE parse_term_loop(toks, l.node, l.curr)

\* the loop of parse_expression recursing to the right instead of folding left
parse_expression_loop_RightNested(toks, left, c) ==
  IF c < Len(toks) /\ toks[c + 1].ttype \in {"PLUS", "MINUS"}
  THEN LET op == toks[c + 1]
           r == parse_expression(toks, c + 1)
       IN  IF ~r.ok THEN r ELSE Parsed(Expr(left, op, r.node), r.curr)
  ELSE Parsed(left, c)

\* the while loop of parse_expression
parse_expression_loop(toks, left, c) ==
  IF c < Len(toks) /\ toks[c + 1].ttype \in {"PLUS", "MINUS"}
  THEN LET op == toks[c + 1]
           r == parse_term(toks, c + 1)
       IN  IF ~r.ok THEN r ELSE parse_expression_loop(toks, Expr(left, op, r.node), r.curr)
  ELSE Parsed(left, c)

parse_expression(toks, c) ==
  LET l == parse_term(toks, c)
  IN  IF ~l.ok THEN l ELSE parse_expression_loop(toks, l.node, l.curr)

\* the token list main hands to parse_expression: the outer bracket pair removed
\* when the first token is LBRACKET and the last is RBRACKET
StripOuter(toks) ==
  IF toks[1].ttype = "LBRACKET" /\ toks[Len(toks)].ttype = "RBRACKET"
  THEN SubSeq(toks, 2, Len(toks) - 1)
  ELSE toks

\* the parsing section of main
ParseMain(toks) ==
  IF toks = <<>>
  THEN ParseRaise("IndexError", "list index out of range")
  ELSE IF toks[1].ttype = "LBRACKET" /\ toks[Len(toks)].ttype # "RBRACKET"
       THEN ParseRaise("ValueError", "Expected closing bracket")
       ELSE parse_expression(StripOuter(toks), 0)

-----------------------------------------------------------------------------
(* Evaluator *)

Value(v) == [ok |-> TRUE, val |-> v]

EvalRaise(exc, msg) == [ok |-> FALSE, exc |-> exc, msg |-> msg]

\* float(token.get_value())
FloatOfToken(t) ==
  IF t.value = NoneValue
  THEN EvalRaise("TypeError", "float() argument must be a string or a real number")
  ELSE Value(Float(t.value))

ApplyOp(ttype, l, r) ==
  CASE ttype = "PLUS" -> Value(Rat(l.n * r.d + r.n * l.d, l.d * r.d))
    [] ttype = "MINUS" -> Value(Rat(l.n * r.d - r.n * l.d, l.d * r.d))
    [] ttype = "ASTERISK" -> Value(Rat(l.n * r.n, l.d * r.d))
    [] ttype = "FSLASH" ->
         IF r.n = 0
         THEN EvalRaise("ZeroDivisionError", "float division by zero")
         ELSE Value(Rat(l.n * r.d, l.d * r.n))
    [] OTHER -> EvalRaise("ValueError", "Unknown operator")

\* Expr.evaluate
evaluate(e) ==
  LET left_value == IF IsExprNode(e.left) THEN evaluate(e.left) ELSE FloatOfToken(e.left)
  IN  IF ~left_value.ok
      THEN left_value
      ELSE LET right_value == IF IsExprNode(e.right) THEN evaluate(e.right) ELSE FloatOfToken(e.right)
           IN  IF ~right_value.ok
               THEN right_value
               ELSE ApplyOp(e.op.ttype, left_value.val, right_value.val)

\* ast.evaluate() in main: ast is whatever parse_expression returned
EvaluateMain(node) ==
  IF IsExprNode(node)
  THEN evaluate(node)
  ELSE EvalRaise("AttributeError", "'Token' object has no attribute 'evaluate'")

-----------------------------------------------------------------------------
(* Inputs: the line of text main reads *)

\* characters of the exhaustively enumerated texts; "@" stands for every
\* character the scanner has no case for
Alphabet == {"1", "+", "*", "/", "(", ")", ".", " ", "@"}

\* every text of exactly n characters of Alphabet
Strings(n) ==
  IF n = 0 THEN {<<>>} ELSE {Append(s, c) : s \in Strings(n - 1), c \in Alphabet}

Literals == {<<"0">>, <<"2">>, <<"1", ".", "5">>}

AddOps == {"+", "-"}

MulOps == {"*", "/"}

\* the texts of the grammar's factor, term and expression with exactly n tokens
FactorStr(n) ==
  IF n = 1
  THEN Literals
  ELSE IF n < 3 THEN {} ELSE {<<"(">> \o e \o <<")">> : e \in ExprStr(n - 2)}

TermStr(n) ==
  FactorStr(n) \cup
  UNION {{t \o <<o>> \o f : t \in TermStr(i), o \in MulOps, f \in FactorStr(n - 1 - i)} : i \in 1..(n - 2)}

ExprStr(n) ==
  TermStr(n) \cup
  UNION {{e \o <<o>> \o t : e \in ExprStr(i), o \in AddOps, t \in TermStr(n - 1 - i)} : i \in 1..(n - 2)}

\* the inputs the specification's test list names
Examples ==
  { <<"2", "+", "3", "*", "4">>,
    <<"1", "0", "-", "3", "-", "2">>,
    <<"(", "2", "+", "3", ")", "*", "4">>,
    <<"(", "1", "+", "2", ")">>,
    <<"1", "+", "2">>,
    <<"1", ".", "5", "+", "2", ".", "2", "5">>,
    <<"1", ".", "2", ".", "3">>,
    <<"(", "1", "+", "2">>,
    <<"1", "+", "@">>,
    <<"5">>,
    <<"(", "5", ")">> }

Sources ==
  UNION {Strings(n) : n \in 0..MaxLen} \cup UNION {ExprStr(n) : n \in 1..MaxTok} \cup Examples

-----------------------------------------------------------------------------
(* The program: main *)

NoAst == [unset |-> TRUE]

NoResult == [kind |-> "none"]

Init ==
  /\ source \in Sources
  /\ curr = 0
  /\ tokens = <<>>
  /\ reads = {}
  /\ ast = NoAst
  /\ result = NoResult
  /\ pc = "scan"

\* the token of a one-character case of the match statement
SymbolType(c) ==
  CASE c = "+" -> "PLUS" [] c = "-" -> "MINUS" [] c = "*" -> "ASTERISK"
    [] c = "/" -> "FSLASH" [] c = "(" -> "LBRACKET" [] c = ")" -> "RBRACKET"
    [] c = "." -> "DOT"

Symbols == {"+", "-", "*", "/", "(", ")", "."}

\* case '0' | ... | '9': scan_num, then the NUM token of source[initial:curr + 1]
ScanNumber ==
  /\ pc = "scan"
  /\ curr < Len(source)
  /\ source[curr + 1] \in Digits
  /\ LET initial == curr
         r == scan_num(source, curr)
     IN  /\ reads' = reads \cup {curr} \cup r.reads
         /\ IF r.err = "none"
            THEN /\ tokens' = Append(tokens,
                        Token("NUM", SubSeq(source, initial + 1, r.curr + 1), r.curr - initial + 1))
                 /\ curr' = r.curr + 1
                 /\ UNCHANGED <<result, pc>>
            ELSE /\ result' = Raise(r.err, "scan",
                        IF r.err = "ValueError" THEN "Number has two decimal points"
                                                ELSE "string index out of range")
                 /\ pc' = "done"
                 /\ UNCHANGED <<tokens, curr>>
  /\ UNCHANGED <<source, ast>>

\* case '+', '-', '*', '/', '(', ')', '.': a token of length 1 with no value
ScanSymbol ==
  /\ pc = "scan"
  /\ curr < Len(source)
  /\ source[curr + 1] \in Symbols
  /\ tokens' = Append(tokens, Token(SymbolType(source[curr + 1]), NoneValue, 1))
  /\ curr' = curr + 1
  /\ reads' = reads \cup {curr}
  /\ UNCHANGED <<source, ast, result, pc>>

\* case ' ': pass
ScanSpace ==
  /\ pc = "scan"
  /\ curr < Len(source)
  /\ source[curr + 1] = " "
  /\ curr' = curr + 1
  /\ reads' = reads \cup {curr}
  /\ UNCHANGED <<source, tokens, ast, result, pc>>

\* case _: raise ValueError
ScanUnknown ==
  /\ pc = "scan"
  /\ curr < Len(source)
  /\ source[curr + 1] \notin Digits \cup Symbols \cup {" "}
  /\ reads' = reads \cup {curr}
  /\ result' = Raise("ValueError", "scan", "")
  /\ pc' = "done"
  /\ UNCHANGED <<source, curr, tokens, ast>>

\* the parsing section: the scanning loop has ended
Parse ==
  /\ pc = "scan"
  /\ curr >= Len(source)
  /\ LET r == ParseMain(tokens)
     IN  /\ tokens' = IF tokens = <<>> THEN tokens ELSE StripOuter(tokens)
         /\ IF r.ok
            THEN /\ ast' = r.node
                 /\ pc' = "eval"
                 /\ UNCHANGED result
            ELSE /\ result' = Raise(r.exc, "parse", r.msg)
                 /\ pc' = "done"
                 /\ UNCHANGED ast
  /\ UNCHANGED <<source, curr, reads>>

\* the evaluation section
Evaluate ==
  /\ pc = "eval"
  /\ LET r == EvaluateMain(ast)
     IN  result' = IF r.ok THEN [kind |-> "ok", value |-> r.val]
                           ELSE Raise(r.exc, "eval", r.msg)
  /\ pc' = "done"
  /\ UNCHANGED <<source, curr, tokens, reads, ast>>

Next == ScanNumber \/ ScanSymbol \/ ScanSpace \/ ScanUnknown \/ Parse \/ Evaluate

Spec == Init /\ [][Next]_vars

-----------------------------------------------------------------------------
(* The grammar the claims refer to                                         *)
(*   expression := term ( ('+' | '-') term )*                              *)
(*   term       := factor ( ('*' | '/') factor )*                          *)
(*   factor     := NUMBER | '(' expression ')'                             *)
(* stated once over texts and once over token kinds, without the parser.   *)

\* a number literal: digits, optionally one '.' and further digits
IsNumber(s) ==
  /\ Len(s) >= 1
  /\ s[1] \in Digits
  /\ \A i \in 1..Len(s) : s[i] \in Digits \cup {"."}
  /\ Cardinality({i \in 1..Len(s) : s[i] = "."}) <= 1

IsFactor(s) ==
  \/ IsNumber(s)
  \/ /\ Len(s) >= 3
     /\ s[1] = "("
     /\ s[Len(s)] = ")"
     /\ IsExpression(SubSeq(s, 2, Len(s) - 1))

IsTerm(s) ==
  \/ IsFactor(s)
  \/ \E i \in 2..(Len(s) - 1) :
       /\ s[i] \in MulOps
       /\ IsFactor(SubSeq(s, i + 1, Len(s)))
       /\ IsTerm(SubSeq(s, 1, i - 1))

IsExpression(s) ==
  \/ IsTerm(s)
  \/ \E i \in 2..(Len(s) - 1) :
       /\ s[i] \in AddOps
       /\ IsTerm(SubSeq(s, i + 1, Len(s)))
       /\ IsExpression(SubSeq(s, 1, i - 1))

Kinds(toks) == [i \in 1..Len(toks) |-> toks[i].ttype]

DerivesFactor(k) ==
  \/ k = <<"NUM">>
  \/ /\ Len(k) >= 3
     /\ k[1] = "LBRACKET"
     /\ k[Len(k)] = "RBRACKET"
     /\ DerivesExpression(SubSeq(k, 2, Len(k) - 1))

DerivesTerm(k) ==
  \/ DerivesFactor(k)
  \/ \E i \in 2..(Len(k) - 1) :
       /\ k[i] \in {"ASTERISK", "FSLASH"}
       /\ DerivesFactor(SubSeq(k, i + 1, Len(k)))
       /\ DerivesTerm(SubSeq(k, 1, i - 1))

DerivesExpression(k) ==
  \/ DerivesTerm(k)
  \/ \E i \in 2..(Len(k) - 1) :
       /\ k[i] \in {"PLUS", "MINUS"}
       /\ DerivesTerm(SubSeq(k, i + 1, Len(k)))
       /\ DerivesExpression(SubSeq(k, 1, i - 1))

\* the tokens of a tree read left to right
Flatten(node) ==
  IF IsExprNode(node)
  THEN Flatten(node.left) \o <<node.op>> \o Flatten(node.right)
  ELSE <<node>>

\* the token kinds form NUM (op NUM)* with every op in ops
IsChain(toks, ops) ==
  /\ Len(toks) % 2 = 1
  /\ \A i \in 1..Len(toks) :
       IF i % 2 = 1 THEN toks[i].ttype = "NUM" ELSE toks[i].ttype \in ops

ArithOps == {"PLUS", "MINUS", "ASTERISK", "FSLASH"}

Finished == pc = "done"

Succeeded == pc = "done" /\ result.kind = "ok"

Failed(stage) == pc = "done" /\ result.kind = "error" /\ result.stage = stage

DivisionByZero == Failed("eval") /\ result.exc = "ZeroDivisionError"

ScanEnded == pc = "scan" /\ curr >= Len(source)

\* the parsing section has run on the scanned tokens
ParseRan == pc = "eval" \/ (pc = "done" /\ ~(result.kind = "error" /\ result.stage = "scan"))

-----------------------------------------------------------------------------
(* Claims *)

\* C1: every valid input (an expression of the grammar, no whitespace) runs
\* through scan, parse and evaluate to a numeric result unless a division by
\* zero occurs; single literals such as "5" and "(5)" included.
C1_ValidInputYieldsResult ==
  (Finished /\ IsExpression(source)) => (Succeeded \/ DivisionByZero)

\* a bracketed sub-expression stands next to an operator of the text
HasBracketOperand(s) ==
  \E i \in 1..(Len(s) - 1) :
    \/ s[i] = ")" /\ s[i + 1] \in AddOps \cup MulOps
    \/ s[i] \in AddOps \cup MulOps /\ s[i + 1] = "("

\* C2: for every valid input in which a bracketed sub-expression is an operand
\* of a surrounding operator the pipeline succeeds (up to division by zero),
\* and "(2+3)*4" evaluates to 20.
C2_Grouping ==
  (Finished /\ IsExpression(source) /\ HasBracketOperand(source)) =>
    /\ Succeeded \/ DivisionByZero
    /\ source = <<"(", "2", "+", "3", ")", "*", "4">> => (Succeeded /\ result.value = Rat(20, 1))

OnlyMul(node) ==
  IF IsExprNode(node)
  THEN node.op.ttype \in {"ASTERISK", "FSLASH"} /\ OnlyMul(node.left) /\ OnlyMul(node.right)
  ELSE node.ttype = "NUM"

PrecedenceOk(node) ==
  IsExprNode(node) =>
    /\ node.op.ttype \in {"ASTERISK", "FSLASH"} => (OnlyMul(node.left) /\ OnlyMul(node.right))
    /\ PrecedenceOk(node.left)
    /\ PrecedenceOk(node.right)

\* C3: for every bracket-free token sequence NUM (op NUM)* the tree parse
\* builds holds the tokens in their order and every '*' or '/' node has only
\* number literals and '*' or '/' nodes beneath it; "2+3*4" evaluates to 14.
C3_Precedence ==
  /\ (ParseRan /\ tokens # <<>> /\ IsChain(tokens, ArithOps)) =>
       (ast # NoAst /\ PrecedenceOk(ast) /\ Flatten(ast) = tokens)
  /\ (Finished /\ source = <<"2", "+", "3", "*", "4">>) =>
       (Succeeded /\ result.value = Rat(14, 1))

C3_Witness ==
  /\ Succeeded
  /\ source = <<"2", "+", "3", "*", "4">>
  /\ IsExprNode(ast.right) /\ ast.right.op.ttype = "ASTERISK" /\ ast.op.ttype = "PLUS"

LeftNested(node) ==
  IsExprNode(node) => (~IsExprNode(node.right) /\ LeftNested(node.left))

Wrap(toks) == <<Token("LBRACKET", NoneValue, 1)>> \o toks \o <<Token("RBRACKET", NoneValue, 1)>>

\* C5: for every valid expression e, the tokens of "(" e ")" and the tokens of
\* e parse to structurally equal trees.
C5_OuterBracketsStripped ==
  [][(ScanEnded /\ IsExpression(source)) =>
       (pc' = "eval" /\ ParseMain(Wrap(tokens)).ok /\ ParseMain(Wrap(tokens)).node = ast')]_vars

\* C6: every non-empty token sequence that the grammar's expression does not
\* derive makes the parsing stage fail: no tree is returned or evaluated.
C6_GrammarViolationFails ==
  [][(ScanEnded /\ tokens # <<>> /\ ~DerivesExpression(Kinds(tokens))) =>
       (pc' = "done" /\ result'.kind = "error" /\ result'.stage = "parse" /\ ast' = NoAst)]_vars

HasUnknownChar(s) == \E i \in 1..Len(s) : s[i] \notin Digits \cup Symbols \cup {" "}

\* digits, a '.', further digits and a second '.' in a row
HasSecondDot(s) ==
  \E i \in 1..Len(s), j \in 1..Len(s), k \in 1..Len(s) :
    /\ i < j /\ j < k
    /\ s[j] = "." /\ s[k] = "."
    /\ \A m \in i..(k - 1) : m # j => s[m] \in Digits

\* C7: scan fails exactly when the source holds a character other than a digit,
\* + - * / ( ) . or space, or a number scan meets a second '.'; the failure is
\* raised before any parsing, and every other source is scanned to the end.
C7_LexErrorExactly ==
  /\ Failed("scan") => (result.exc = "ValueError" /\ ast = NoAst)
  /\ Finished => (Failed("scan") <=> (HasUnknownChar(source) \/ HasSecondDot(source)))
  /\ (HasUnknownChar(source) \/ HasSecondDot(source)) => (ast = NoAst /\ pc # "eval" /\ ~ScanEnded)

C7_Witness ==
  /\ Failed("scan")
  /\ source = <<"1", ".", "2", ".", "3">>
  /\ result.msg = "Number has two decimal points"

\* C8: for every tree a successful parse returns (a literal leaf or a binary
\* tree) evaluate returns a value, and its only failure is a division by zero.
C8_EvaluateFailsOnlyOnZeroDivision ==
  (Finished /\ ast # NoAst) => (Succeeded \/ DivisionByZero)

\* the text the tokens were taken from
TokenText(toks) ==
  IF toks = <<>>
  THEN <<>>
  ELSE LET t == toks[Len(toks)]
           front == TokenText(SubSeq(toks, 1, Len(toks) - 1))
       IN  IF t.ttype = "NUM"
           THEN front \o t.value
           ELSE front \o <<CHOOSE c \in Symbols : SymbolType(c) = t.ttype>>

NoSpaces(s) == SelectSeq(s, LAMBDA c : c # " ")

\* C9: the scanner never reads source at an index >= len(source); every NUM
\* token carries a number text (digits, optionally one '.' and further
\* digits) with its character count as length; and the texts of the tokens
\* produced so far are exactly the characters before curr, spaces left out:
\* no character is skipped or scanned twice.
C9_NumberScan ==
  /\ \A i \in reads : i >= 0 /\ i < Len(source)
  /\ pc = "scan" =>
       /\ curr <= Len(source)
       /\ TokenText(tokens) = NoSpaces(SubSeq(source, 1, curr))
       /\ \A i \in 1..Len(tokens) :
            tokens[i].ttype = "NUM" =>
              (IsNumber(tokens[i].value) /\ tokens[i].length = Len(tokens[i].value))

C9_Witness ==
  /\ pc = "scan"
  /\ source = <<"1", ".", "5", "+", "2", ".", "2", "5">>
  /\ curr = Len(source)
  /\ Len(tokens) = 3
  /\ tokens[3].length = 4

WellFormedTree(node) ==
  IF IsExprNode(node)
  THEN /\ node.op.ttype \in ArithOps
       /\ WellFormedTree(node.left)
       /\ WellFormedTree(node.right)
  ELSE node.ttype = "NUM"

\* C10: in every tree the parser returns each operator token is PLUS, MINUS,
\* ASTERISK or FSLASH and each leaf is a NUM token, so evaluate never raises
\* "Unknown operator".
C10_TreeInvariant ==
  /\ ast # NoAst => WellFormedTree(ast)
  /\ result.kind = "error" => result.msg # "Unknown operator"

C10_Witness ==
  /\ pc = "eval"
  /\ IsExprNode(ast)
  /\ IsExprNode(ast.left)
  /\ IsExprNode(ast.right)

====
